---- MODULE Spec2Model ----
(***************************************************************************)
(* A model of src/main.py: the POST /summarize handler generate_shorts and *)
(* the three functions it composes (get_video_id, download_transcript,     *)
(* generate_shorts_script).  Text is modelled as sequences of one-character *)
(* strings so that the regular expressions, the fence stripping and the    *)
(* JSON parse are computed, not assumed.  The transcript provider and the  *)
(* LLM provider are the environment: each call either raises or returns a  *)
(* value drawn from a bounded set.                                         *)
(***************************************************************************)
EXTENDS Integers, Sequences, FiniteSets, TLC

VARIABLES pc, body, request, video_id, calls, transcript_text, reply,
          content, script, exc, response, history

vars == <<pc, body, request, video_id, calls, transcript_text, reply,
          content, script, exc, response, history>>

\* ------------------------------------------------------------------ bounds
\* The longest transcript (in segments) the transcript provider returns.
MaxSegments == 2

\* ------------------------------------------------------- program constants
\* {11} in each of the three patterns of get_video_id.
IdLen == 11
\* status_code=500 of the handler's HTTPException.
StatusInternalError == 500
\* The framework's status of a handler that returns its response model.
StatusOk == 200
\* The framework's status of a body that does not validate as VideoRequest.
StatusUnprocessable == 422
\* content[4:] after the "json" language tag.
JsonTagLen == 4

\* -------------------------------------------------------------------- text
\* [0-9A-Za-z_-]
IdChars ==
    {"0","1","2","3","4","5","6","7","8","9",
     "A","B","C","D","E","F","G","H","I","J","K","L","M","N","O","P","Q","R",
     "S","T","U","V","W","X","Y","Z",
     "a","b","c","d","e","f","g","h","i","j","k","l","m","n","o","p","q","r",
     "s","t","u","v","w","x","y","z","_","-"}

\* The characters str.strip() removes and json.loads skips between tokens.
Whitespace == {" ", "\n", "\t", "\r"}

\* s[i..] begins with p.
StartsAt(s, i, p) ==
    /\ i >= 1
    /\ i + Len(p) - 1 <= Len(s)
    /\ \A k \in 1..Len(p) : s[i + k - 1] = p[k]

\* str.startswith
StartsWith(s, p) == StartsAt(s, 1, p)

\* The least index >= from at which p occurs in s, 0 when there is none.
Find(s, p, from) ==
    LET hits == {i \in from..Len(s) : StartsAt(s, i, p)}
    IN  IF hits = {} THEN 0 ELSE CHOOSE i \in hits : \A j \in hits : i <= j

\* str.strip()
Strip(s) ==
    LET keep == {i \in 1..Len(s) : s[i] \notin Whitespace}
    IN  IF keep = {} THEN <<>>
        ELSE LET lo == CHOOSE i \in keep : \A j \in keep : i <= j
                 hi == CHOOSE i \in keep : \A j \in keep : i >= j
             IN  SubSeq(s, lo, hi)

\* s.split(sep)[1]: the text between the first and the second occurrence of
\* sep (to the end when there is no second one).  Only used on an s that
\* holds sep, as content.split(fence)[1] is.
SplitSecond(s, sep) ==
    LET first == Find(s, sep, 1)
        start == first + Len(sep)
        next  == Find(s, sep, start)
    IN  IF next = 0 THEN SubSeq(s, start, Len(s))
        ELSE SubSeq(s, start, next - 1)

RECURSIVE Join(_, _)
\* sep.join(parts)
Join(parts, sep) ==
    IF parts = <<>> THEN <<>>
    ELSE IF Len(parts) = 1 THEN parts[1]
    ELSE parts[1] \o sep \o Join(Tail(parts), sep)

\* ------------------------------------------------------------ get_video_id
\* The result of a failed search (None) or the captured group.
NoMatch == [matched |-> FALSE, group |-> <<>>]

Matched(g) == [matched |-> TRUE, group |-> g]

\* ([0-9A-Za-z_-]{11}) at position j.
IdRunAt(s, j) ==
    /\ j >= 1
    /\ j + IdLen - 1 <= Len(s)
    /\ \A k \in j..(j + IdLen - 1) : s[k] \in IdChars

\* The position of the group when (?:v=|\/)([0-9A-Za-z_-]{11}).* matches at
\* position i, 0 when it does not.
Pattern1At(s, i) ==
    IF StartsAt(s, i, <<"v", "=">>) /\ IdRunAt(s, i + 2) THEN i + 2
    ELSE IF StartsAt(s, i, <<"/">>) /\ IdRunAt(s, i + 1) THEN i + 1
    ELSE 0

\* re.search of pattern 1: the leftmost position at which it matches.
SearchPattern1(s) ==
    LET hits == {i \in 1..Len(s) : Pattern1At(s, i) # 0}
    IN  IF hits = {} THEN NoMatch
        ELSE LET i == CHOOSE i \in hits : \A j \in hits : i <= j
             IN  Matched(SubSeq(s, Pattern1At(s, i), Pattern1At(s, i) + IdLen - 1))

\* re.search of (?:embed\/)([0-9A-Za-z_-]{11}).
SearchPattern2(s) ==
    LET p    == <<"e", "m", "b", "e", "d", "/">>
        hits == {i \in 1..Len(s) : StartsAt(s, i, p) /\ IdRunAt(s, i + Len(p))}
    IN  IF hits = {} THEN NoMatch
        ELSE LET i == CHOOSE i \in hits : \A j \in hits : i <= j
             IN  Matched(SubSeq(s, i + Len(p), i + Len(p) + IdLen - 1))

\* re.search of ^([0-9A-Za-z_-]{11})$ ($ also matches before a final newline).
SearchPattern3(s) ==
    IF /\ IdRunAt(s, 1)
       /\ \/ Len(s) = IdLen
          \/ Len(s) = IdLen + 1 /\ s[Len(s)] = "\n"
    THEN Matched(SubSeq(s, 1, IdLen))
    ELSE NoMatch

\* The patterns are tried in order and the first match is returned.
get_video_id(url) ==
    IF SearchPattern1(url).matched THEN SearchPattern1(url)
    ELSE IF SearchPattern2(url).matched THEN SearchPattern2(url)
    ELSE IF SearchPattern3(url).matched THEN SearchPattern3(url)
    ELSE NoMatch

\* -------------------------------------------------------------- json.loads
\* A parsed JSON value: a str or a dict of str to values.  The replies drawn
\* below hold strings and objects only and no backslash, so the other value
\* kinds and the string escapes are not modelled.
JsonStr(chars) == [type |-> "str", str |-> chars, obj |-> <<>>]

JsonObj(f) == [type |-> "obj", str |-> <<>>, obj |-> f]

ParseFail == [ok |-> FALSE, val |-> JsonStr(<<>>), pos |-> 0]

ParseOk(v, p) == [ok |-> TRUE, val |-> v, pos |-> p]

\* The first index >= i that holds no whitespace (Len(s) + 1 at the end).
SkipWs(s, i) ==
    LET rest == {j \in i..Len(s) : s[j] \notin Whitespace}
    IN  IF rest = {} THEN Len(s) + 1
        ELSE CHOOSE j \in rest : \A m \in rest : j <= m

\* Characters json.loads (strict) rejects inside a string literal.
ControlChars == {"\n", "\t", "\r"}

\* A string literal opening at s[i] = '"'.
ParseString(s, i) ==
    LET close == Find(s, <<"\"">>, i + 1)
    IN  IF i > Len(s) \/ s[i] # "\"" THEN ParseFail
        ELSE IF close = 0 THEN ParseFail
        ELSE IF \E m \in (i + 1)..(close - 1) : s[m] \in ControlChars THEN ParseFail
        ELSE ParseOk(JsonStr(SubSeq(s, i + 1, close - 1)), close + 1)

RECURSIVE ParseValue(_, _)
RECURSIVE ParseMembers(_, _)

\* "key" : value ( , "key" : value )* } with s[i] the first key's quote.
\* A repeated key keeps its last value, as a Python dict does.
ParseMembers(s, i) ==
    LET key   == ParseString(s, i)
        colon == SkipWs(s, key.pos)
        val   == ParseValue(s, SkipWs(s, colon + 1))
        after == SkipWs(s, val.pos)
        more  == ParseMembers(s, SkipWs(s, after + 1))
    IN  IF ~key.ok THEN ParseFail
        ELSE IF colon > Len(s) \/ s[colon] # ":" THEN ParseFail
        ELSE IF ~val.ok THEN ParseFail
        ELSE IF after > Len(s) THEN ParseFail
        ELSE IF s[after] = "}"
             THEN ParseOk(JsonObj(key.val.str :> val.val), after + 1)
        ELSE IF s[after] # "," THEN ParseFail
        ELSE IF ~more.ok THEN ParseFail
        ELSE ParseOk(JsonObj(more.val.obj @@ (key.val.str :> val.val)), more.pos)

\* A value starting at s[i]: a string or an object.
ParseValue(s, i) ==
    IF i > Len(s) THEN ParseFail
    ELSE IF s[i] = "\"" THEN ParseString(s, i)
    ELSE IF s[i] = "{"
         THEN LET j == SkipWs(s, i + 1)
              IN  IF j > Len(s) THEN ParseFail
                  ELSE IF s[j] = "}" THEN ParseOk(JsonObj(<<>>), j + 1)
                  ELSE ParseMembers(s, j)
    ELSE ParseFail

\* json.loads(s): one value, whitespace around it, nothing after it.
Loads(s) ==
    LET r == ParseValue(s, SkipWs(s, 1))
    IN  IF r.ok /\ SkipWs(s, r.pos) = Len(s) + 1 THEN r ELSE ParseFail

\* --------------------------------------------------------- fence stripping
\* The grave accent (U+0060), which a TLA+ string literal cannot hold.
Backtick == "GRAVE"

\* The triple-backtick fence of a markdown code block.
Fence == <<Backtick, Backtick, Backtick>>

JsonTag == <<"j", "s", "o", "n">>

\* response.content.strip(), then the removal of the markdown code block.
ExtractContent(raw) ==
    LET stripped == Strip(raw)
        inner    == SplitSecond(stripped, Fence)
        untagged == IF StartsWith(inner, JsonTag)
                    THEN SubSeq(inner, JsonTagLen + 1, Len(inner))
                    ELSE inner
    IN  IF StartsWith(stripped, Fence) THEN Strip(untagged) ELSE stripped

\* ----------------------------------------------------------------- inputs
\* The four fields of ShortsScriptResponse, in the order the handler reads
\* them.
Title == <<"t", "i", "t", "l", "e">>

Subtitles == <<"s", "u", "b", "t", "i", "t", "l", "e", "s">>

Narration == <<"n", "a", "r", "r", "a", "t", "i", "o", "n">>

VisualSuggestions == <<"v", "i", "s", "u", "a", "l", "_", "s", "u", "g", "g", "e", "s", "t", "i", "o", "n", "s">>

ResponseFields == <<Title, Subtitles, Narration, VisualSuggestions>>

\* 11-character video identifiers.
Tokens ==
    {<<"d", "Q", "w", "4", "w", "9", "W", "g", "X", "c", "Q">>,
     <<"a", "_", "c", "-", "2", "3", "4", "5", "6", "7", "8">>}

\* What stands for the "..." of https://...watch?v=X and https://...embed/X.
UrlPrefixes ==
    {<<"w", "w", "w", ".", "y", "o", "u", "t", "u", "b", "e", ".", "c", "o", "m", "/">>,
     <<"y", "o", "u", "t", "u", "b", "e", "-", "n", "o", "c", "o", "o", "k", "i", "e", ".", "c", "o", "m", "/">>,
     <<"w", "w", "w", ".", "y", "o", "u", "t", "u", "b", "e", ".", "c", "o", "m", "/", "a", "t", "t", "r", "i", "b", "u", "t", "i", "o", "n", "_", "l", "i", "n", "k", "?", "u", "=", "/">>}

Scheme == <<"h", "t", "t", "p", "s", ":", "/", "/">>

WatchUrl(prefix, x) == Scheme \o prefix \o <<"w", "a", "t", "c", "h", "?", "v", "=">> \o x

EmbedUrl(prefix, x) == Scheme \o prefix \o <<"e", "m", "b", "e", "d", "/">> \o x

ShortUrl(x) == Scheme \o <<"y", "o", "u", "t", "u", ".", "b", "e", "/">> \o x

\* Inputs that hold no 11-character token behind "v=" or "/".
NoIdInputs ==
    {<<>>,
     <<"h", "t", "t", "p", "s", ":", "/", "/", "y", "o", "u", "t", "u", ".", "b", "e", "/", "s", "h", "o", "r", "t">>,
     <<"n", "o", "t", " ", "a", " ", "u", "r", "l">>}

VideoUrls ==
    {WatchUrl(p, x) : p \in UrlPrefixes, x \in Tokens}
        \cup {EmbedUrl(p, x) : p \in UrlPrefixes, x \in Tokens}
        \cup {ShortUrl(x) : x \in Tokens}
        \cup Tokens
        \cup NoIdInputs

ApiKeys == {<<>>, <<"s", "k", "-", "t", "e", "s", "t">>}

\* "humorous": one of the four labels the service names.
Styles == {"humorous"}

\* style: str = "감성적" (emotional)
DefaultStyle == "emotional"

\* A request body: each field of VideoRequest is present or absent.
Bodies ==
    [has_video_url : BOOLEAN, video_url : VideoUrls,
     has_api_key : BOOLEAN, api_key : ApiKeys,
     has_style : BOOLEAN, style : Styles]

\* An absent field carries no value: one representative per absence.
WellFormedBody(b) ==
    /\ ~b.has_video_url => b.video_url = <<>>
    /\ ~b.has_api_key => b.api_key = <<>>

\* The text of a segment of a transcript.
SegmentTexts == {<<"a", "b">>}

\* to_raw_data(): {text, start, duration} per segment; only text is read.
Segments == [text : SegmentTexts]

\* What a successful fetch returns: an ordered sequence of segments.
Transcripts == UNION {[1..n -> Segments] : n \in 0..MaxSegments}

\* What a failed fetch raises.
ProviderErrors == {"TranscriptsDisabled", "NoTranscriptFound"}

\* What a failed model.invoke raises.
LlmErrors == {"AuthenticationError", "APIConnectionError"}

Quote(chars) == <<"\"">> \o chars \o <<"\"">>

\* "key":value
Member(key, valueText) == Quote(key) \o <<":">> \o valueText

\* {member,member,...}
ObjectText(members) == <<"{">> \o Join(members, <<",">>) \o <<"}">>

\* The value a well-behaved model gives field f.
SampleValue(f) == <<f[1], f[2], " ", "1">>

CompleteMembers ==
    [i \in 1..Len(ResponseFields) |->
        Member(ResponseFields[i], Quote(SampleValue(ResponseFields[i])))]

\* The members of the complete reply without the i-th.
MembersWithout(i) ==
    SubSeq(CompleteMembers, 1, i - 1)
        \o SubSeq(CompleteMembers, i + 1, Len(CompleteMembers))

\* The members of the complete reply with the i-th value replaced.
MembersWith(i, valueText) ==
    [CompleteMembers EXCEPT ![i] = Member(ResponseFields[i], valueText)]

CompleteObject == ObjectText(CompleteMembers)

\* The complete reply as a model pretty-prints it.
PrettyObject ==
    <<"{", "\n", " ">>
        \o Join([i \in 1..Len(ResponseFields) |->
                    Quote(ResponseFields[i]) \o <<":", " ">>
                        \o Quote(SampleValue(ResponseFields[i]))],
                <<",", "\n", " ">>)
        \o <<"\n", "}">>

\* visual_suggestions quotes a code fence inside its string value.
FenceInValueObject ==
    ObjectText(MembersWith(4, Quote(<<"x">> \o Fence \o <<"y">> \o Fence)))

\* narration is an object, not a string.
NestedValueObject ==
    ObjectText(MembersWith(3, ObjectText(<<Member(<<"k">>, Quote(<<"v">>))>>)))

\* JSON object texts: each parses, unwrapped, to a dict.
JsonObjectTexts ==
    {CompleteObject, PrettyObject, FenceInValueObject, NestedValueObject,
     <<"{", "}">>}
        \cup {ObjectText(MembersWithout(i)) : i \in 1..Len(ResponseFields)}

\* Valid JSON that is no object, and texts that are no JSON at all: a
\* truncated object, prose, a raw newline inside a string.
OtherTexts ==
    {Quote(<<"o", "k">>),
     SubSeq(CompleteObject, 1, Len(CompleteObject) - 1),
     <<"S", "o", "r", "r", "y">>,
     ObjectText(MembersWith(1, Quote(<<"a", "\n", "b">>)))}

\* A text inside a fenced block with the "json" language tag.
TaggedFence(j) == Fence \o JsonTag \o <<"\n">> \o j \o <<"\n">> \o Fence

\* A text inside a fenced block without a language tag.
BareFence(j) == Fence \o <<"\n">> \o j \o <<"\n">> \o Fence

\* A tagged fenced block with whitespace around it.
PaddedFence(j) == <<" ", "\n">> \o TaggedFence(j) \o <<"\n", " ">>

\* response.content: what the model may reply.
Replies ==
    LET texts == JsonObjectTexts \cup OtherTexts
    IN  texts \cup {TaggedFence(j) : j \in texts}
              \cup {BareFence(j) : j \in texts}
              \cup {PaddedFence(j) : j \in texts}

\* -------------------------------------------------------------- exceptions
\* An exception: its class and its message, the message split into the
\* fixed prefix an f-string puts before the text it embeds (empty when the
\* message is one text) and that text.
NoExc == [cls |-> "None", prefix |-> "", detail |-> <<>>]

Raised(cls, message) == [cls |-> cls, prefix |-> "", detail |-> <<message>>]

\* str(e)
Str(e) == IF e.prefix = "" THEN e.detail ELSE <<e.prefix>> \o e.detail

\* raise Exception(f"<prefix>{...}")
Wrapped(prefix, detail) == [cls |-> "Exception", prefix |-> prefix, detail |-> detail]

\* What a caller can tell failures apart by: the class and the fixed label.
Kind(e) == <<e.cls, e.prefix>>

\* download_transcript's handler: except Exception as e: raise
\* Exception(f"자막 다운로드 실패: {str(e)}") ("transcript download failed").
DownloadExcept(e) == Wrapped("TranscriptDownloadFailed: ", Str(e))

\* GenerationExcept with except Exception listed first: every failure,
\* a JSONDecodeError too, is re-wrapped as the generic kind.
GenerationExceptGenericFirst(e, parsed) ==
    Wrapped("ScriptGenerationFailed: ", Str(e))

\* generate_shorts_script's two handlers, in their order: JSONDecodeError
\* first ("JSON 파싱 실패", with the content that was parsed), then any other
\* Exception ("스크립트 생성 실패").
GenerationExcept(e, parsed) ==
    IF e.cls = "JSONDecodeError"
    THEN Wrapped("JsonParseFailed: ",
                 Str(e) \o <<"\nResponseContent: ">> \o parsed)
    ELSE Wrapped("ScriptGenerationFailed: ", Str(e))

\* ------------------------------------------------------------------- state
NoResponse == [status |-> 0, detail |-> <<>>, body |-> <<>>]

\* download_transcript(request.video_url, language='ko')
PreferredLanguage == "ko"

\* languages=['en']
FallbackLanguage == "en"

\* fetch(video_id) without languages
AnyLanguage == "any"

TranscriptCall(id, languages, ok, transcript) ==
    [svc |-> "transcript", video_id |-> id, languages |-> languages,
     ok |-> ok, transcript |-> transcript, text |-> <<>>]

LlmCall(ok, text) ==
    [svc |-> "llm", video_id |-> <<>>, languages |-> "",
     ok |-> ok, transcript |-> <<>>, text |-> text]

\* '\n'.join([item['text'] for item in transcript_data])
FullText(transcript) ==
    Join([i \in 1..Len(transcript) |-> transcript[i].text], <<"\n">>)

Init ==
    /\ pc = "idle"
    /\ body = [has_video_url |-> FALSE, video_url |-> <<>>,
               has_api_key |-> FALSE, api_key |-> <<>>,
               has_style |-> FALSE, style |-> DefaultStyle]
    /\ request = [video_url |-> <<>>, api_key |-> <<>>, style |-> DefaultStyle]
    /\ video_id = NoMatch
    /\ calls = <<>>
    /\ transcript_text = <<>>
    /\ reply = <<>>
    /\ content = <<>>
    /\ script = JsonStr(<<>>)
    /\ exc = NoExc
    /\ response = NoResponse
    /\ history = <<>>

\* VideoRequest: video_url and api_key are required, style has a default.
ValidBody(b) == b.has_video_url /\ b.has_api_key

\* POST /summarize arrives.  The framework validates the body against
\* VideoRequest before it calls generate_shorts: a body without a required
\* field is answered by the framework and the handler never runs.
Receive ==
    /\ pc = "idle"
    /\ \E b \in Bodies :
        /\ WellFormedBody(b)
        /\ body' = b
        /\ IF ValidBody(b)
           THEN /\ request' = [video_url |-> b.video_url,
                               api_key |-> b.api_key,
                               style |-> IF b.has_style THEN b.style ELSE DefaultStyle]
                /\ pc' = "download"
                /\ history' = <<"received">>
                /\ UNCHANGED response
           ELSE /\ response' = [status |-> StatusUnprocessable,
                                detail |-> <<"FieldRequired">>,
                                body |-> <<>>]
                /\ pc' = "responded"
                /\ history' = <<"received", "responded">>
                /\ UNCHANGED request
    /\ UNCHANGED <<video_id, calls, transcript_text, reply, content, script, exc>>

\* download_transcript: video_id = get_video_id(video_url); if not video_id:
\* raise ValueError (caught by the function's own except Exception).
ResolveIdentifier ==
    /\ pc = "download"
    /\ video_id' = get_video_id(request.video_url)
    /\ IF video_id'.matched
       THEN /\ pc' = "fetch_preferred"
            /\ history' = Append(history, "identifier-resolved")
            /\ UNCHANGED exc
       ELSE /\ exc' = DownloadExcept(Raised("ValueError", "InvalidYouTubeUrl"))
            /\ pc' = "except"
            /\ UNCHANGED history
    /\ UNCHANGED <<body, request, calls, transcript_text, reply, content, script, response>>

\* download_transcript returns full_text to the handler.
TranscriptFetched(languages, transcript) ==
    /\ calls' = Append(calls, TranscriptCall(video_id.group, languages, TRUE, transcript))
    /\ transcript_text' = FullText(transcript)
    /\ pc' = "check_key"
    /\ history' = Append(history, "transcript-fetched")
    /\ UNCHANGED exc

\* ytt_api.fetch(video_id, languages=[language])
FetchPreferred ==
    /\ pc = "fetch_preferred"
    /\ \/ \E t \in Transcripts : TranscriptFetched(PreferredLanguage, t)
       \/ /\ calls' = Append(calls, TranscriptCall(video_id.group, PreferredLanguage, FALSE, <<>>))
          /\ pc' = "fetch_fallback"
          /\ UNCHANGED <<transcript_text, history, exc>>
    /\ UNCHANGED <<body, request, video_id, reply, content, script, response>>

\* FetchFallback with the three attempts in sequence rather than nested: the
\* unconstrained fetch is issued after the "en" fetch whatever its outcome.
FetchFallbackThenAlways ==
    /\ pc = "fetch_fallback"
    /\ \E ok \in BOOLEAN, t \in Transcripts :
          /\ ok \/ t = <<>>
          /\ calls' = Append(calls, TranscriptCall(video_id.group, FallbackLanguage, ok, t))
    /\ pc' = "fetch_any"
    /\ UNCHANGED <<transcript_text, history, exc>>
    /\ UNCHANGED <<body, request, video_id, reply, content, script, response>>

\* except: ytt_api.fetch(video_id, languages=['en'])
FetchFallback ==
    /\ pc = "fetch_fallback"
    /\ \/ \E t \in Transcripts : TranscriptFetched(FallbackLanguage, t)
       \/ /\ calls' = Append(calls, TranscriptCall(video_id.group, FallbackLanguage, FALSE, <<>>))
          /\ pc' = "fetch_any"
          /\ UNCHANGED <<transcript_text, history, exc>>
    /\ UNCHANGED <<body, request, video_id, reply, content, script, response>>

\* FetchAny with the last failure swallowed as the first two are: the
\* function returns an empty text instead of raising.
FetchAnySwallowed ==
    /\ pc = "fetch_any"
    /\ \/ \E t \in Transcripts : TranscriptFetched(AnyLanguage, t)
       \/ /\ calls' = Append(calls, TranscriptCall(video_id.group, AnyLanguage, FALSE, <<>>))
          /\ transcript_text' = <<>>
          /\ pc' = "check_key"
          /\ UNCHANGED <<history, exc>>
    /\ UNCHANGED <<body, request, video_id, reply, content, script, response>>

\* except: ytt_api.fetch(video_id); its failure reaches except Exception.
FetchAny ==
    /\ pc = "fetch_any"
    /\ \/ \E t \in Transcripts : TranscriptFetched(AnyLanguage, t)
       \/ \E e \in ProviderErrors :
            /\ calls' = Append(calls, TranscriptCall(video_id.group, AnyLanguage, FALSE, <<>>))
            /\ exc' = DownloadExcept(Raised(e, e))
            /\ pc' = "except"
            /\ UNCHANGED <<transcript_text, history>>
    /\ UNCHANGED <<body, request, video_id, reply, content, script, response>>

\* generate_shorts_script: if not api_key: raise ValueError.
CheckApiKey ==
    /\ pc = "check_key"
    /\ IF request.api_key = <<>>
       THEN /\ exc' = GenerationExcept(Raised("ValueError", "OpenAIApiKeyRequired"), content)
            /\ pc' = "except"
       ELSE /\ pc' = "invoke"
            /\ UNCHANGED exc
    /\ UNCHANGED <<body, request, video_id, calls, transcript_text, reply, content,
                   script, response, history>>

\* response = model.invoke(prompt)
InvokeModel ==
    /\ pc = "invoke"
    /\ \/ \E r \in Replies :
            /\ calls' = Append(calls, LlmCall(TRUE, r))
            /\ reply' = r
            /\ pc' = "parse"
            /\ UNCHANGED exc
       \/ \E e \in LlmErrors :
            /\ calls' = Append(calls, LlmCall(FALSE, <<>>))
            /\ exc' = GenerationExcept(Raised(e, e), content)
            /\ pc' = "except"
            /\ UNCHANGED reply
    /\ UNCHANGED <<body, request, video_id, transcript_text, content, script,
                   response, history>>

\* ParseReply with a retry: a reply that is no JSON sends the function back
\* to model.invoke.
ParseReplyRetrying ==
    /\ pc = "parse"
    /\ content' = ExtractContent(reply)
    /\ IF Loads(content').ok
       THEN /\ script' = Loads(content').val
            /\ pc' = "build"
            /\ history' = Append(history, "script-generated")
       ELSE /\ pc' = "invoke"
            /\ UNCHANGED <<script, history>>
    /\ UNCHANGED <<body, request, video_id, calls, transcript_text, reply, response, exc>>

\* content = response.content.strip(); the fence removal; json.loads(content)
ParseReply ==
    /\ pc = "parse"
    /\ content' = ExtractContent(reply)
    /\ IF Loads(content').ok
       THEN /\ script' = Loads(content').val
            /\ pc' = "build"
            /\ history' = Append(history, "script-generated")
            /\ UNCHANGED exc
       ELSE /\ exc' = GenerationExcept(Raised("JSONDecodeError", "ExpectingValue"), content')
            /\ pc' = "except"
            /\ UNCHANGED <<script, history>>
    /\ UNCHANGED <<body, request, video_id, calls, transcript_text, reply, response>>

\* The fields of ResponseFields that the dict d lacks, as indexes.
MissingFields(d) == {i \in 1..Len(ResponseFields) : ResponseFields[i] \notin DOMAIN d}

\* What ShortsScriptResponse(title=script["title"], ...) raises: TypeError
\* when script is a str, KeyError for the first missing key, a
\* ValidationError when a value is no str; NoExc when it raises nothing.
ConstructionError(s) ==
    IF s.type # "obj" THEN Raised("TypeError", "StringIndicesMustBeIntegers")
    ELSE IF MissingFields(s.obj) # {}
         THEN LET i == CHOOSE i \in MissingFields(s.obj) :
                            \A j \in MissingFields(s.obj) : i <= j
              IN  [cls |-> "KeyError", prefix |-> "",
                   detail |-> <<"'">> \o ResponseFields[i] \o <<"'">>]
    ELSE IF \E i \in 1..Len(ResponseFields) : s.obj[ResponseFields[i]].type # "str"
         THEN Raised("ValidationError", "InputShouldBeAValidString")
    ELSE NoExc

\* BuildResponse reading the fields with script.get(field, ""): a missing
\* field becomes an empty string.
BuildResponseLenient ==
    /\ pc = "build"
    /\ IF script.type = "obj"
            /\ \A i \in 1..Len(ResponseFields) :
                  ResponseFields[i] \in DOMAIN script.obj
                      => script.obj[ResponseFields[i]].type = "str"
       THEN /\ response' = [status |-> StatusOk,
                            detail |-> <<>>,
                            body |-> [i \in 1..Len(ResponseFields) |->
                                         IF ResponseFields[i] \in DOMAIN script.obj
                                         THEN script.obj[ResponseFields[i]].str
                                         ELSE <<>>]]
            /\ pc' = "responded"
            /\ history' = Append(history, "responded")
            /\ UNCHANGED exc
       ELSE /\ exc' = Raised("TypeError", "StringIndicesMustBeIntegers")
            /\ pc' = "except"
            /\ UNCHANGED <<response, history>>
    /\ UNCHANGED <<body, request, video_id, calls, transcript_text, reply, content, script>>

\* return ShortsScriptResponse(...)
BuildResponse ==
    /\ pc = "build"
    /\ IF ConstructionError(script) = NoExc
       THEN /\ response' = [status |-> StatusOk,
                            detail |-> <<>>,
                            body |-> [i \in 1..Len(ResponseFields) |->
                                         script.obj[ResponseFields[i]].str]]
            /\ pc' = "responded"
            /\ history' = Append(history, "responded")
            /\ UNCHANGED exc
       ELSE /\ exc' = ConstructionError(script)
            /\ pc' = "except"
            /\ UNCHANGED <<response, history>>
    /\ UNCHANGED <<body, request, video_id, calls, transcript_text, reply, content, script>>

\* HandlerExcept answering 400 (bad request) instead of 500.
HandlerExceptBadRequest ==
    /\ pc = "except"
    /\ response' = [status |-> 400, detail |-> Str(exc), body |-> <<>>]
    /\ pc' = "responded"
    /\ history' = Append(history, "responded")
    /\ UNCHANGED <<body, request, video_id, calls, transcript_text, reply, content,
                   script, exc>>

\* except Exception as e: raise HTTPException(status_code=500, detail=str(e))
HandlerExcept ==
    /\ pc = "except"
    /\ response' = [status |-> StatusInternalError, detail |-> Str(exc), body |-> <<>>]
    /\ pc' = "responded"
    /\ history' = Append(history, "responded")
    /\ UNCHANGED <<body, request, video_id, calls, transcript_text, reply, content,
                   script, exc>>

Next ==
    \/ Receive
    \/ ResolveIdentifier
    \/ FetchPreferred
    \/ FetchFallback
    \/ FetchAny
    \/ CheckApiKey
    \/ InvokeModel
    \/ ParseReply
    \/ BuildResponse
    \/ HandlerExcept

Spec == Init /\ [][Next]_vars

\* ------------------------------------------------------------------ claims
\* The calls to the transcript provider, in the order they were made.
TranscriptCalls == SelectSeq(calls, LAMBDA c : c.svc = "transcript")

\* The calls to the LLM provider, in the order they were made.
LlmCalls == SelectSeq(calls, LAMBDA c : c.svc = "llm")

\* s ends with p.
EndsWith(s, p) == Len(p) <= Len(s) /\ SubSeq(s, Len(s) - Len(p) + 1, Len(s)) = p

\* The request failed: the body was rejected or an exception was raised.
RequestFailed == pc = "responded" /\ (~ValidBody(body) \/ exc # NoExc)

\* C1 as stated: every failure of a POST /summarize request, whatever its
\* kind and stage, is answered 500; none is answered with another status.
C1_EveryFailureIs500 ==
    RequestFailed => response.status = StatusInternalError

\* C1 as amended: every failure raised inside the handler is answered 500
\* with the exception's message as the detail, a 200 is only sent when
\* nothing failed, and a body that lacks a required field (video_url or
\* api_key absent) is answered 422 by the framework.
C1_HandlerFailuresAre500 ==
    pc = "responded" =>
        /\ exc # NoExc =>
              /\ response.status = StatusInternalError
              /\ response.detail = Str(exc)
              /\ response.detail # <<>>
        /\ ~ValidBody(body) <=> response.status = StatusUnprocessable
        /\ response.status = StatusOk <=> (ValidBody(body) /\ exc = NoExc)

\* C1's case: an empty API key, an invalid input, answered 500.
C1_Witness ==
    /\ pc = "responded"
    /\ request.api_key = <<>>
    /\ exc.prefix = "ScriptGenerationFailed: "
    /\ response.status = StatusInternalError

\* C2 as stated: when the api_key is absent or empty no outbound call is
\* made in the request, to the transcript provider or to the LLM provider.
C2_NoCallWithoutKey ==
    (pc # "idle" /\ (~body.has_api_key \/ body.api_key = <<>>)) => calls = <<>>

\* The languages of the attempts of download_transcript, in order.
FallbackOrder == <<PreferredLanguage, FallbackLanguage, AnyLanguage>>

\* C3: the transcript provider is called for the preferred language, then
\* "en", then with no language; an attempt is only made when every earlier
\* one failed, so none follows a success; what download_transcript returns
\* is the text of the one successful attempt.
C3_FallbackOrder ==
    LET tc == TranscriptCalls
    IN  /\ Len(tc) <= Len(FallbackOrder)
        /\ \A i \in 1..Len(tc) :
              /\ tc[i].languages = FallbackOrder[i]
              /\ tc[i].video_id = video_id.group
              /\ i < Len(tc) => ~tc[i].ok
        /\ pc = "fetch_fallback" => Len(tc) = 1
        /\ pc = "fetch_any" => Len(tc) = 2
        /\ (\E i \in 1..Len(history) : history[i] = "transcript-fetched") =>
              /\ tc # <<>>
              /\ tc[Len(tc)].ok
              /\ transcript_text = FullText(tc[Len(tc)].transcript)
        /\ (tc # <<>> /\ tc[Len(tc)].ok) =>
              \E i \in 1..Len(history) : history[i] = "transcript-fetched"

\* C3's case: the preferred fetch failed, the "en" fetch succeeded and the
\* request was answered without a third fetch.
C3_Witness ==
    /\ pc = "responded"
    /\ Len(TranscriptCalls) = 2
    /\ ~TranscriptCalls[1].ok
    /\ TranscriptCalls[2].ok
    /\ TranscriptCalls[2].transcript # <<>>

\* The identifier was resolved, or found missing, for the request.
IdentifierStepDone == pc \notin {"idle", "download"} /\ ValidBody(body)

\* C4 as stated: for every 11-character token X, get_video_id returns X for
\* https://...watch?v=X and https://...embed/X, whatever stands for "...",
\* and for the bare X.
C4_SupportedShapesResolve ==
    IdentifierStepDone =>
        \A x \in Tokens :
            /\ request.video_url = x => video_id = Matched(x)
            /\ \A p \in UrlPrefixes :
                  (request.video_url \in {WatchUrl(p, x), EmbedUrl(p, x)})
                      => video_id = Matched(x)

\* The reply was received and handled by generate_shorts_script.
ReplyHandled ==
    /\ pc \in {"build", "except", "responded"}
    /\ LlmCalls # <<>>
    /\ LlmCalls[1].ok

\* C5 as stated: a reply that wraps a JSON object text J in a fence (with or
\* without the "json" tag, with whitespace around it) is parsed to what the
\* unwrapped reply J is parsed to.
C5_FencedParsesAsUnwrapped ==
    ReplyHandled =>
        \A j \in JsonObjectTexts :
            reply \in {TaggedFence(j), BareFence(j), PaddedFence(j)} =>
                /\ Loads(Strip(j)).ok
                /\ exc.prefix # "JsonParseFailed: "
                /\ script = Loads(Strip(j)).val

\* The stage was completed in the request.
Completed(stage) == \E i \in 1..Len(history) : history[i] = stage

\* C6: a 200 is sent only when the parsed reply is an object holding all four
\* fields, and it carries exactly their values; a parsed reply that lacks a
\* field ends in a 500 that names the missing field, never in a result.
C6_AllFieldsRequired ==
    /\ response.status = StatusOk =>
          /\ script.type = "obj"
          /\ MissingFields(script.obj) = {}
          /\ \A i \in 1..Len(ResponseFields) :
                response.body[i] = script.obj[ResponseFields[i]].str
    /\ (pc = "responded" /\ Completed("script-generated")
            /\ script.type = "obj" /\ MissingFields(script.obj) # {}) =>
          /\ response.status = StatusInternalError
          /\ response.body = <<>>
          /\ exc.cls = "KeyError"
          /\ \E i \in MissingFields(script.obj) :
                response.detail = <<"'">> \o ResponseFields[i] \o <<"'">>

\* C6's case: the reply parsed to an object without narration and the
\* request was answered 500.
C6_Witness ==
    /\ pc = "responded"
    /\ Completed("script-generated")
    /\ script.type = "obj"
    /\ MissingFields(script.obj) = {3}
    /\ response.status = StatusInternalError

\* The stages of the handler, in order.
Stages ==
    <<"received", "identifier-resolved", "transcript-fetched",
      "script-generated", "responded">>

\* C7: the stages are passed in order, a failure skipping to "responded";
\* the LLM provider is only invoked after a fetch succeeded, a 200 is only
\* sent after the script was generated, and once a failure is raised the
\* handler is at its error response: no later stage runs, so no LLM call is
\* made when the identifier or all three fetches failed.
C7_LinearStages ==
    /\ \A i \in 1..Len(history) :
          \/ history[i] = Stages[i]
          \/ i = Len(history) /\ history[i] = "responded"
    /\ Len(history) <= Len(Stages)
    /\ LlmCalls # <<>> =>
          /\ Completed("transcript-fetched")
          /\ \E i \in 1..Len(TranscriptCalls) : TranscriptCalls[i].ok
    /\ response.status = StatusOk => Completed("script-generated")
    /\ Completed("script-generated") => (LlmCalls # <<>> /\ LlmCalls[1].ok)
    /\ Completed("transcript-fetched") => Completed("identifier-resolved")
    /\ exc # NoExc => pc \in {"except", "responded"}
    /\ (exc # NoExc /\ ~Completed("transcript-fetched")) => LlmCalls = <<>>
    /\ (exc # NoExc /\ ~Completed("identifier-resolved")) => calls = <<>>
    /\ (exc # NoExc /\ pc = "responded") =>
          history[Len(history) - 1] # "script-generated"
              \/ exc.cls \in {"KeyError", "TypeError", "ValidationError"}

\* C7's case: all three fetches failed and the request was answered with no
\* LLM call.
C7_Witness ==
    /\ pc = "responded"
    /\ Len(TranscriptCalls) = 3
    /\ \A i \in 1..3 : ~TranscriptCalls[i].ok
    /\ LlmCalls = <<>>
    /\ response.status = StatusInternalError

\* C8 as stated: when no identifier is found the transcript provider is not
\* called, and what download_transcript raises is of another kind than what
\* it raises when the fetch attempts fail.
C8_NoMatchIsDistinctKind ==
    (IdentifierStepDone /\ ~video_id.matched) =>
        /\ calls = <<>>
        /\ \A e \in ProviderErrors : Kind(exc) # Kind(DownloadExcept(Raised(e, e)))

\* generate_shorts_script raised.
GenerationFailed ==
    /\ exc # NoExc
    /\ Completed("transcript-fetched")
    /\ ~Completed("script-generated")

\* C9: generate_shorts_script fails in two kinds.  A reply that is no JSON
\* after the fence removal yields the JSON-parse kind, whose message ends
\* with the content that was parsed, and only such a reply does; an empty
\* key or a failed invocation yields the generic generation-failure kind.
C9_TwoFailureKinds ==
    /\ GenerationFailed =>
          \/ Kind(exc) = <<"Exception", "JsonParseFailed: ">>
          \/ Kind(exc) = <<"Exception", "ScriptGenerationFailed: ">>
    /\ (ReplyHandled /\ ~Loads(ExtractContent(reply)).ok) =>
          /\ Kind(exc) = <<"Exception", "JsonParseFailed: ">>
          /\ content = ExtractContent(reply)
          /\ EndsWith(Str(exc), content)
    /\ exc.prefix = "JsonParseFailed: " =>
          (ReplyHandled /\ ~Loads(ExtractContent(reply)).ok)
    /\ (GenerationFailed /\ (request.api_key = <<>> \/ ~LlmCalls[1].ok)) =>
          Kind(exc) = <<"Exception", "ScriptGenerationFailed: ">>

\* C9's case: a fenced reply that is no JSON once the fence is removed was
\* reported as a JSON-parse failure.
C9_Witness ==
    /\ pc = "responded"
    /\ StartsWith(Strip(reply), Fence)
    /\ content # <<>>
    /\ exc.prefix = "JsonParseFailed: "

\* C10: in one request the LLM provider is invoked at most once, also when
\* its reply is no JSON, the transcript provider at most three times, once
\* per fallback level, and nothing is left to run once the request is
\* answered.
C10_NothingRetried ==
    /\ Len(LlmCalls) <= 1
    /\ Len(TranscriptCalls) <= 3
    /\ \A i, j \in 1..Len(TranscriptCalls) :
          i # j => TranscriptCalls[i].languages # TranscriptCalls[j].languages
    /\ \A i \in 1..Len(calls) :
          calls[i].svc = "llm" => i = Len(calls)
    /\ pc = "responded" => ~ENABLED Next

\* C10's case: three fetches, one invocation whose reply was no JSON, and
\* the request answered.
C10_Witness ==
    /\ pc = "responded"
    /\ Len(TranscriptCalls) = 3
    /\ Len(LlmCalls) = 1
    /\ exc.prefix = "JsonParseFailed: "

====
